---- MODULE Spec2Model ----
(***************************************************************************)
(* The OpenAI-compatible HTTP front end of AI/src/serve_openai.py.         *)
(*                                                                         *)
(* State: the two class attributes of OpenAIHandler (model_name,           *)
(* model_runner), the command line and what parse_args made of it, and,    *)
(* while one request is being served, the request, the handler's local     *)
(* variables, the steps its body went through and every status it emitted  *)
(* (each call of send_response, with how much of it the connection took).  *)
(* The handler object is built per request and discarded afterwards        *)
(* (finish), so only the class attributes survive from one request to the  *)
(* next.                                                                   *)
(*                                                                         *)
(* Text is a sequence of one-character strings, so that str.split, the     *)
(* f-string prefixes and "\n".join are computed, not assumed.  A float is  *)
(* carried as its literal.  uuid4 and time.time() (the id suffix and the   *)
(* created field) are left out of the payloads.                            *)
(***************************************************************************)
EXTENDS Integers, Sequences, FiniteSets, TLC

VARIABLES pc, model_name, model_runner, argv, args, request, steps, locals,
          response

vars == << pc, model_name, model_runner, argv, args, request, steps, locals,
          response >>

----------------------------------------------------------------------------
(* Bounds of the model *)

\* longest prompt text of a completion request
MaxLen == 3
\* longest message list of a chat request
MaxMsgs == 2

\* characters of request texts: a letter and a blank
Chars == {"a", " "}

----------------------------------------------------------------------------
(* Text *)

Texts == UNION {[1..k -> Chars] : k \in 0..MaxLen}

IsSpace(c) == c \in {" ", "\n", "\t", "\r"}

\* str.split() with no argument: skip the whitespace, take the characters up
\* to the next whitespace as a word, go on behind it
RECURSIVE SkipSpace(_, _)
SkipSpace(s, i) ==
    IF i <= Len(s) /\ IsSpace(s[i]) THEN SkipSpace(s, i + 1) ELSE i

RECURSIVE WordEnd(_, _)
WordEnd(s, i) ==
    IF i <= Len(s) /\ ~IsSpace(s[i]) THEN WordEnd(s, i + 1) ELSE i

RECURSIVE SplitFrom(_, _)
SplitFrom(s, i) ==
    LET b == SkipSpace(s, i) IN
    IF b > Len(s) THEN << >>
    ELSE LET e == WordEnd(s, b)
         IN << SubSeq(s, b, e - 1) >> \o SplitFrom(s, e)

split(s) == SplitFrom(s, 1)

\* "\n".join(parts)
RECURSIVE join(_)
join(parts) ==
    IF parts = << >> THEN << >>
    ELSE IF Len(parts) = 1 THEN parts[1]
    ELSE parts[1] \o << "\n" >> \o join(Tail(parts))

ModelNotLoadedText == <<
    "[", "M", "o", "d", "e", "l", " ", "n", "o", "t", " ", "l", "o", "a",
    "d", "e", "d", "]", " ", "T", "h", "i", "s", " ", "i", "s", " ", "a",
    " ", "p", "l", "a", "c", "e", "h", "o", "l", "d", "e", "r", " ", "r",
    "e", "s", "p", "o", "n", "s", "e", ".", " ", "P", "l", "e", "a", "s",
    "e", " ", "l", "o", "a", "d", " ", "a", " ", "m", "o", "d", "e", "l",
    " ", "t", "o", " ", "g", "e", "t", " ", "a", "c", "t", "u", "a", "l",
    " ", "c", "o", "m", "p", "l", "e", "t", "i", "o", "n", "s", "." >>

GeneratedPrefix == <<
    "[", "G", "e", "n", "e", "r", "a", "t", "e", "d", " ", "r", "e", "s",
    "p", "o", "n", "s", "e", " ", "f", "o", "r", ":", " " >>

GeneratedSuffix == << ".", ".", ".", "]" >>

SystemLabel == << "S", "y", "s", "t", "e", "m", ":", " " >>

UserLabel == << "U", "s", "e", "r", ":", " " >>

AssistantLabel == << "A", "s", "s", "i", "s", "t", "a", "n", "t", ":", " " >>

AssistantCue == << "A", "s", "s", "i", "s", "t", "a", "n", "t", ":" >>

\* prompt[:50]
PromptPrefixLen == 50

----------------------------------------------------------------------------
(* JSON values, as json.loads hands them to the handler *)

JStr(s) == [k |-> "str", s |-> s, n |-> 0]
JInt(n) == [k |-> "int", s |-> << >>, n |-> n]
JFloat(lit) == [k |-> "float", s |-> lit, n |-> 0]
JList(len) == [k |-> "list", s |-> << >>, n |-> len]
JNull == [k |-> "null", s |-> << >>, n |-> 0]
\* a local variable that was never assigned
Unbound == [k |-> "unbound", s |-> << >>, n |-> 0]

\* a key of the request object: present with a value, or absent
Present(v) == [present |-> TRUE, v |-> v]
Absent == [present |-> FALSE, v |-> JNull]

\* Python truth value of a JSON value (`not prompt`)
Truthy(v) ==
    CASE v.k = "str" -> Len(v.s) > 0
      [] v.k = "int" -> v.n # 0
      [] v.k = "float" -> v.s \notin {<< "0", ".", "0" >>}
      [] v.k = "list" -> v.n > 0
      [] OTHER -> FALSE

DefaultMaxTokens == 100
DefaultTemperature == << "1", ".", "0" >>
DefaultTopP == << "1", ".", "0" >>
DefaultN == 1

None == "None"
DefaultModelName == "gpt-oss-20b"

----------------------------------------------------------------------------
(* Requests *)

\* dict.get(key, default)
get(field, default) == IF field.present THEN field.v ELSE default

\* the `messages` key: a list of items, or something that is no list
MList(items) == [present |-> TRUE, k |-> "list", items |-> items]
MOther(k) == [present |-> TRUE, k |-> k, items |-> << >>]
MAbsent == [present |-> FALSE, k |-> "null", items |-> << >>]

\* `not messages`
MessagesTruthy(m) ==
    CASE m.k = "list" -> Len(m.items) > 0
      [] m.k = "int" -> TRUE
      [] OTHER -> FALSE

\* the `role` key of a message, absent
RoleAbsent == [present |-> FALSE, v |-> ""]

\* one item of the list: a {role, content} object, or a value that is no object
Msg(role, content) == [obj |-> TRUE, role |-> role, content |-> content]
NonObjectItem == [obj |-> FALSE, role |-> RoleAbsent, content |-> Absent]

RoleValues == {Present("system"), Present("user"), Present("assistant"),
               Present("tool"), RoleAbsent}

ChatContent == JStr(<< "a", " ", "a" >>)

ChatMessages ==
    {Msg(r, Present(ChatContent)) : r \in RoleValues}
        \cup {Msg(Present("user"), Absent), NonObjectItem}

MessageLists == UNION {[1..k -> ChatMessages] : k \in 0..MaxMsgs}

MessagesValues ==
    {MList(l) : l \in MessageLists} \cup {MAbsent, MOther("int"), MOther("null")}

PromptValues ==
    {Present(JStr(t)) : t \in Texts}
        \cup {Absent, Present(JNull), Present(JInt(0)), Present(JInt(7)),
              Present(JList(0)), Present(JList(1))}

\* the optional parameters of a request: each one left out or sent with its
\* default, and one request that sends other values for all of them
Options(max_tokens, temperature, top_p, n) ==
    [max_tokens |-> max_tokens, temperature |-> temperature,
     top_p |-> top_p, n |-> n]

OtherOptions ==
    Options(Present(JInt(16)), Present(JFloat(<< "0", ".", "5" >>)),
            Present(JFloat(<< "0", ".", "9" >>)), Present(JInt(2)))

CompletionOptions ==
    [max_tokens : {Absent, Present(JInt(DefaultMaxTokens))},
     temperature : {Absent, Present(JFloat(DefaultTemperature))},
     top_p : {Absent, Present(JFloat(DefaultTopP))},
     n : {Absent, Present(JInt(DefaultN))}]
        \cup {OtherOptions}

\* a chat request has no n
ChatOptions == {o \in CompletionOptions : o.n = Absent} \cup {[OtherOptions EXCEPT !.n = Absent]}

Body(kind, prompt, messages, max_tokens, temperature, top_p, n) ==
    [kind |-> kind, prompt |-> prompt, messages |-> messages,
     max_tokens |-> max_tokens, temperature |-> temperature,
     top_p |-> top_p, n |-> n]

NoBody == Body("none", Absent, MAbsent, Absent, Absent, Absent, Absent)
EmptyObject == Body("object", Absent, MAbsent, Absent, Absent, Absent, Absent)

\* bodies that are no JSON object: undecodable bytes, malformed JSON, a JSON
\* array, JSON null
BodyKinds == {"object", "badutf8", "malformed", "array", "null"}

\* the Content-Length header: the length of the body, absent, or no number
ContentLengths == {"ok", "missing", "invalid"}

\* the peer reads the whole response, or closes the connection before the
\* response body is written
Clients == {"reads", "drops"}

Paths == {"/", "/health", "/v1/models", "/v1/completions",
          "/v1/chat/completions", "/v1/embeddings"}
Queries == {"", "x=1"}
UnsupportedMethods == {"PUT", "DELETE", "HEAD"}

Request(method, path, query, cl, body, client) ==
    [method |-> method, path |-> path, query |-> query, cl |-> cl,
     body |-> body, client |-> client]

GetRequests ==
    {Request("GET", p, q, "missing", NoBody, c) :
        p \in Paths, q \in Queries, c \in Clients}

UnsupportedRequests ==
    {Request(m, p, "", "missing", NoBody, c) :
        m \in UnsupportedMethods, p \in Paths, c \in Clients}

CompletionBodies ==
    {Body("object", p, MAbsent, o.max_tokens, o.temperature, o.top_p, o.n) :
        p \in PromptValues, o \in CompletionOptions}

ChatBodies ==
    {Body("object", Absent, m, o.max_tokens, o.temperature, o.top_p, o.n) :
        m \in MessagesValues, o \in ChatOptions}

FaultyBodies ==
    {Body(k, Absent, MAbsent, Absent, Absent, Absent, Absent) :
        k \in BodyKinds \ {"object"}}

PostRequests ==
    {Request("POST", p, "", "ok", EmptyObject, c) :
        p \in Paths \ {"/v1/completions", "/v1/chat/completions"}, c \in Clients}
    \cup {Request("POST", "/v1/completions", q, "ok", b, c) :
            q \in {""}, b \in CompletionBodies \cup FaultyBodies, c \in Clients}
    \cup {Request("POST", "/v1/chat/completions", q, "ok", b, c) :
            q \in {""}, b \in ChatBodies \cup FaultyBodies, c \in Clients}
    \cup {Request("POST", p, q, cl, EmptyObject, c) :
            p \in {"/v1/completions", "/v1/chat/completions"}, q \in Queries,
            cl \in ContentLengths, c \in Clients}

NoRequest == Request("", "", "", "missing", NoBody, "reads")

\* urlparse(self.path).path: the request target without its query
urlparse_path(req) == req.path

----------------------------------------------------------------------------
(* Writing a response *)

\* an exception is carried as the pieces of str(e); no exception is << >>
NoExc == << >>
BrokenPipe == << "[Errno 32] Broken pipe" >>

PyType(k) ==
    CASE k = "int" -> "int"
      [] k = "float" -> "float"
      [] k = "list" -> "list"
      [] k = "str" -> "str"
      [] OTHER -> "NoneType"

NoAttribute(k, attr) == << "'", PyType(k), "' object has no attribute '", attr, "'" >>

NoPayload == [object |-> "none"]

\* The connection as the handler's writes see it.  A peer that closed its end
\* takes one more write (the status line and headers); every later write
\* raises.
ConnOf(client) == IF client = "reads" THEN "open" ELSE "closing"

Written(conn) ==
    CASE conn = "open" -> "all"
      [] conn = "closing" -> "head"
      [] OTHER -> "none"

ConnAfter(conn) == IF conn = "open" THEN "open" ELSE "broken"

\* one call of send_response(status) with what followed it; `written` tells
\* how much of it reached the connection
Emitted(status, route, message, payload, conn) ==
    [status |-> status, route |-> route, message |-> message,
     payload |-> payload, written |-> Written(conn)]

\* send_response(status); send_header; end_headers; wfile.write(json.dumps(data))
send_json_response(route, data, conn) ==
    [events |-> << Emitted(200, route, << >>, data, conn) >>,
     raised |-> IF conn = "open" THEN NoExc ELSE BrokenPipe,
     conn |-> ConnAfter(conn)]

\* BaseHTTPRequestHandler.send_error(code, message)
send_error(code, message, conn) ==
    [events |-> << Emitted(code, "error", message, NoPayload, conn) >>,
     raised |-> IF conn = "open" THEN NoExc ELSE BrokenPipe,
     conn |-> ConnAfter(conn)]

----------------------------------------------------------------------------
(* The handlers *)

NoLocals ==
    [prompt |-> Unbound, messages |-> MAbsent, max_tokens |-> Unbound,
     temperature |-> Unbound, top_p |-> Unbound, n |-> Unbound,
     prompt_parts |-> << >>, completion_text |-> Unbound]

\* what a handler did: the steps of its body, its locals, what it emitted
Outcome(st, lc, sent) == [steps |-> st, locals |-> lc, events |-> sent.events,
                          raised |-> sent.raised, conn |-> sent.conn]

Raised(exc, conn) == [events |-> << >>, raised |-> exc, conn |-> conn]

handle_root(conn) ==
    send_json_response("root",
        [name |-> "TensorRT-LLM OpenAI-Compatible API", version |-> "1.0.0",
         status |-> "running",
         endpoints |-> << "GET /v1/models", "POST /v1/completions",
                          "POST /v1/chat/completions", "GET /health" >>],
        conn)

\* mutant: the test of model_runner is inverted
handle_health_inverted(runner, conn) ==
    send_json_response("health",
        [status |-> "healthy", model_loaded |-> runner = None], conn)

handle_health(runner, conn) ==
    send_json_response("health",
        [status |-> "healthy", model_loaded |-> runner # None], conn)

handle_list_models(name, conn) ==
    send_json_response("models",
        [object |-> "list",
         data |-> << [id |-> name, object |-> "model", owned_by |-> "tensorrt-llm",
                      permission |-> << >>, root |-> name, parent |-> None] >>],
        conn)

\* lines 102-104 and the first .get of the handlers: the exception they raise,
\* if any
read_request_data(req) ==
    CASE req.cl = "invalid" ->
            << "invalid literal for int() with base 10: 'abc'" >>
      [] req.cl = "missing" ->
            << "Expecting value: line 1 column 1 (char 0)" >>
      [] req.body.kind = "badutf8" ->
            << "'utf-8' codec can't decode byte 0xff in position 0: invalid start byte" >>
      [] req.body.kind = "malformed" ->
            << "Expecting value: line 1 column 1 (char 0)" >>
      [] req.body.kind = "array" -> NoAttribute("list", "get")
      [] req.body.kind = "null" -> NoAttribute("null", "get")
      [] OTHER -> NoExc

\* prompt[:50]
Prefix(s) == SubSeq(s, 1, IF Len(s) < PromptPrefixLen THEN Len(s) ELSE PromptPrefixLen)

ErrorGeneratingPrefix == <<
    "[", "E", "r", "r", "o", "r", " ", "g", "e", "n", "e", "r", "a", "t",
    "i", "n", "g", " ", "t", "e", "x", "t", ":", " " >>

\* a text prompt is cut to 50 characters and framed; a list is sliced and
\* printed as a list (its items are not modelled: "[0]"); any other value
\* cannot be sliced, and the try of generate_text turns the TypeError into
\* the error text
generate_text(prompt, max_tokens, temperature, top_p) ==
    CASE prompt.k = "str" -> GeneratedPrefix \o Prefix(prompt.s) \o GeneratedSuffix
      [] prompt.k = "list" -> GeneratedPrefix \o << "[", "0", "]" >> \o GeneratedSuffix
      [] OTHER -> ErrorGeneratingPrefix
                    \o << "'", PyType(prompt.k), "' object is not subscriptable" >>
                    \o << "]" >>

\* mutant: the prompt is counted in characters
UsageInCharacters(prompt, completion_text) ==
    [prompt_tokens |-> Len(prompt),
     completion_tokens |-> Len(split(completion_text)),
     total_tokens |-> Len(prompt) + Len(split(completion_text))]

Usage(prompt, completion_text) ==
    [prompt_tokens |-> Len(split(prompt)),
     completion_tokens |-> Len(split(completion_text)),
     total_tokens |-> Len(split(prompt)) + Len(split(completion_text))]

\* mutant: the keys are read without a default
ExtractOptionsNoDefault(body) ==
    [max_tokens |-> body.max_tokens.v,
     temperature |-> get(body.temperature, JFloat(DefaultTemperature)),
     top_p |-> get(body.top_p, JFloat(DefaultTopP))]

\* max_tokens, temperature, top_p = request_data.get(key, default)
ExtractOptions(body) ==
    [max_tokens |-> get(body.max_tokens, JInt(DefaultMaxTokens)),
     temperature |-> get(body.temperature, JFloat(DefaultTemperature)),
     top_p |-> get(body.top_p, JFloat(DefaultTopP))]

\* mutant: only a prompt that is no text is refused
PromptMissingTypeOnly(prompt) == prompt.k # "str"

\* `if not prompt`
PromptMissing(prompt) == ~Truthy(prompt)

\* mutant: only a value that is no list is refused
MessagesMissingTypeOnly(messages) == messages.k # "list"

\* `if not messages`
MessagesMissing(messages) == ~MessagesTruthy(messages)

\* lines 116-121 and 167-171
Generate(runner, prompt, max_tokens, temperature, top_p) ==
    IF runner = None
    THEN ModelNotLoadedText
    ELSE generate_text(prompt, max_tokens, temperature, top_p)

\* mutant: the except branch blames the client
OnExceptionBadRequest(exc, conn) ==
    send_error(400, << "Internal server error: " >> \o exc, conn)

\* the `except Exception as e` of both POST handlers
OnException(exc, conn) ==
    send_error(500, << "Internal server error: " >> \o exc, conn)

Handled(out) ==
    IF out.raised = NoExc
    THEN [steps |-> out.steps, locals |-> out.locals, events |-> out.events]
    ELSE [steps |-> Append(out.steps, "except"), locals |-> out.locals,
          events |-> out.events \o OnException(out.raised, out.conn).events]

completions_try(req, name, runner, conn) ==
    LET exc == read_request_data(req) IN
    IF exc # NoExc THEN Outcome(<< "read" >>, NoLocals, Raised(exc, conn))
    ELSE
    LET prompt == get(req.body.prompt, JStr(<< >>))
        opts == ExtractOptions(req.body)
        max_tokens == opts.max_tokens
        temperature == opts.temperature
        top_p == opts.top_p
        n == get(req.body.n, JInt(DefaultN))
        l1 == [NoLocals EXCEPT !.prompt = prompt, !.max_tokens = max_tokens,
                               !.temperature = temperature, !.top_p = top_p,
                               !.n = n]
    IN
    IF PromptMissing(prompt)
    THEN Outcome(<< "read", "fields", "reject" >>, l1,
                 send_error(400, << "Missing 'prompt' field" >>, conn))
    ELSE
    LET completion_text == Generate(runner, prompt, max_tokens, temperature, top_p)
        l2 == [l1 EXCEPT !.completion_text = JStr(completion_text)]
    IN
    IF prompt.k # "str"
    THEN Outcome(<< "read", "fields", "generate", "usage" >>, l2,
                 Raised(NoAttribute(prompt.k, "split"), conn))
    ELSE Outcome(<< "read", "fields", "generate", "usage", "send" >>, l2,
            send_json_response("completions",
                [id_prefix |-> "cmpl-", object |-> "text_completion",
                 model |-> name,
                 choices |-> << [text |-> completion_text, index |-> 0,
                                 logprobs |-> None, finish_reason |-> "length"] >>,
                 usage |-> Usage(prompt.s, completion_text)],
                conn))

handle_completions(req, name, runner) ==
    Handled(completions_try(req, name, runner, ConnOf(req.client)))

\* f"{content}"
format(v) == IF v.k = "str" THEN v.s ELSE << "N", "o", "n", "e" >>

\* one pass of the loop of messages_to_prompt: what it appends for msg
PartsOf(msg) ==
    LET role == get(msg.role, "user")
        content == get(msg.content, JStr(<< >>))
    IN CASE role = "system" -> << SystemLabel \o format(content) >>
         [] role = "user" -> << UserLabel \o format(content) >>
         [] role = "assistant" -> << AssistantLabel \o format(content) >>
         [] OTHER -> << >>

RECURSIVE LoopParts(_)
LoopParts(items) ==
    IF items = << >> THEN << >>
    ELSE PartsOf(Head(items)) \o LoopParts(Tail(items))

\* prompt_parts as messages_to_prompt leaves it, and the exception the loop
\* raises (iterating a non-list, msg.get on a non-object)
messages_to_prompt(messages) ==
    [raised |-> IF messages.k # "list"
                THEN << "'", PyType(messages.k), "' object is not iterable" >>
                ELSE IF \E i \in 1..Len(messages.items) : ~messages.items[i].obj
                     THEN NoAttribute("str", "get")
                     ELSE NoExc,
     prompt_parts |-> LoopParts(messages.items) \o << AssistantCue >>]

chat_completions_try(req, name, runner, conn) ==
    LET exc == read_request_data(req) IN
    IF exc # NoExc THEN Outcome(<< "read" >>, NoLocals, Raised(exc, conn))
    ELSE
    LET messages == IF req.body.messages.present
                    THEN req.body.messages ELSE MList(<< >>)
        opts == ExtractOptions(req.body)
        max_tokens == opts.max_tokens
        temperature == opts.temperature
        top_p == opts.top_p
        l1 == [NoLocals EXCEPT !.messages = messages, !.max_tokens = max_tokens,
                               !.temperature = temperature, !.top_p = top_p]
    IN
    IF MessagesMissing(messages)
    THEN Outcome(<< "read", "fields", "reject" >>, l1,
                 send_error(400, << "Missing 'messages' field" >>, conn))
    ELSE
    LET flat == messages_to_prompt(messages) IN
    IF flat.raised # NoExc
    THEN Outcome(<< "read", "fields", "flatten" >>, l1, Raised(flat.raised, conn))
    ELSE
    LET prompt == JStr(join(flat.prompt_parts))
        completion_text == Generate(runner, prompt, max_tokens, temperature, top_p)
        l2 == [l1 EXCEPT !.prompt = prompt, !.prompt_parts = flat.prompt_parts,
                         !.completion_text = JStr(completion_text)]
    IN Outcome(<< "read", "fields", "flatten", "generate", "usage", "send" >>, l2,
            send_json_response("chat",
                [id_prefix |-> "chatcmpl-", object |-> "chat.completion",
                 model |-> name,
                 choices |-> << [index |-> 0,
                                 message |-> [role |-> "assistant",
                                              content |-> completion_text],
                                 finish_reason |-> "length"] >>,
                 usage |-> Usage(prompt.s, completion_text)],
                conn))

handle_chat_completions(req, name, runner) ==
    Handled(chat_completions_try(req, name, runner, ConnOf(req.client)))

\* mutant: the chain of do_GET ends in the root handler
GetRouteNoElse(path) ==
    CASE path = "/v1/models" -> "models"
      [] path = "/health" -> "health"
      [] OTHER -> "root"

\* the if/elif chains of do_GET and do_POST
GetRoute(path) ==
    CASE path = "/v1/models" -> "models"
      [] path = "/health" -> "health"
      [] path = "/" -> "root"
      [] OTHER -> "not_found"

PostRoute(path) ==
    CASE path = "/v1/completions" -> "completions"
      [] path = "/v1/chat/completions" -> "chat"
      [] OTHER -> "not_found"

\* the GET handlers and the two 404 branches run outside any try: what they
\* raise leaves the handler
Direct(sent) == [steps |-> << "send" >>, locals |-> NoLocals, events |-> sent.events]

GetResponse(req, name, runner) ==
    LET route == GetRoute(urlparse_path(req))
        conn == ConnOf(req.client)
    IN CASE route = "models" -> Direct(handle_list_models(name, conn))
         [] route = "health" -> Direct(handle_health(runner, conn))
         [] route = "root" -> Direct(handle_root(conn))
         [] OTHER -> Direct(send_error(404, << "Not Found" >>, conn))

PostResponse(req, name, runner) ==
    LET route == PostRoute(urlparse_path(req))
    IN CASE route = "completions" -> handle_completions(req, name, runner)
         [] route = "chat" -> handle_chat_completions(req, name, runner)
         [] OTHER -> Direct(send_error(404, << "Not Found" >>, ConnOf(req.client)))

\* the handler class defines do_GET and do_POST only: the base class answers
\* every other method itself
UnsupportedResponse(req) ==
    Direct(send_error(501, << "Unsupported method (", req.method, ")" >>,
                      ConnOf(req.client)))

----------------------------------------------------------------------------
(* Startup *)

\* --model_name given or not, --engine_dir given or not
ModelNameArgs == {None, "my-model"}
EngineDirArgs == {None, "/engines/missing", "/engines/gpt-oss"}
\* the directories os.path.exists finds
ExistingPaths == {"/engines/gpt-oss"}

CommandLines == [model_name : ModelNameArgs, engine_dir : EngineDirArgs]

NoArgs == [model_name |-> None, engine_dir |-> None]

\* argparse: an option that is not given takes its default
parse_args(cmdline) ==
    [model_name |-> IF cmdline.model_name = None
                    THEN DefaultModelName ELSE cmdline.model_name,
     engine_dir |-> cmdline.engine_dir]

\* run_server up to serve_forever: the engine is looked for, loading it is
\* deferred, the handler's model_runner is not assigned
run_server(runner, engine_dir) ==
    IF engine_dir # None /\ engine_dir \in ExistingPaths
    THEN runner
    ELSE runner

----------------------------------------------------------------------------
(* The state machine *)

Init ==
    /\ pc = "start"
    /\ model_name = DefaultModelName
    /\ model_runner = None
    /\ argv = NoArgs
    /\ args = NoArgs
    /\ request = NoRequest
    /\ steps = << >>
    /\ locals = NoLocals
    /\ response = << >>

\* mutant: the handler's model name is not set from the command line
main_keeps_name(cmdline) ==
    /\ pc = "start"
    /\ argv' = cmdline
    /\ args' = parse_args(cmdline)
    /\ model_runner' = run_server(model_runner, parse_args(cmdline).engine_dir)
    /\ pc' = "serving"
    /\ UNCHANGED << model_name, request, steps, locals, response >>

main(cmdline) ==
    /\ pc = "start"
    /\ argv' = cmdline
    /\ args' = parse_args(cmdline)
    /\ model_name' = parse_args(cmdline).model_name
    /\ model_runner' = run_server(model_runner, parse_args(cmdline).engine_dir)
    /\ pc' = "serving"
    /\ UNCHANGED << request, steps, locals, response >>

\* mutant: the engine is loaded into the handler class while a request is
\* served
ServeLoadsRunner(req, out) ==
    /\ pc' = "handled"
    /\ request' = req
    /\ steps' = out.steps
    /\ locals' = out.locals
    /\ response' = out.events
    /\ model_runner' = IF argv.engine_dir \in ExistingPaths
                       THEN "ModelRunnerCpp" ELSE model_runner
    /\ UNCHANGED << model_name, argv, args >>

Serve(req, out) ==
    /\ pc' = "handled"
    /\ request' = req
    /\ steps' = out.steps
    /\ locals' = out.locals
    /\ response' = out.events
    /\ UNCHANGED << model_name, model_runner, argv, args >>

do_GET ==
    /\ pc = "serving"
    /\ \E req \in GetRequests :
          Serve(req, GetResponse(req, model_name, model_runner))

do_POST ==
    /\ pc = "serving"
    /\ \E req \in PostRequests :
          Serve(req, PostResponse(req, model_name, model_runner))

unsupported_method ==
    /\ pc = "serving"
    /\ \E req \in UnsupportedRequests : Serve(req, UnsupportedResponse(req))

\* the handler object and its connection are dropped; the server takes the
\* next request
finish ==
    /\ pc = "handled"
    /\ pc' = "serving"
    /\ request' = NoRequest
    /\ steps' = << >>
    /\ locals' = NoLocals
    /\ response' = << >>
    /\ UNCHANGED << model_name, model_runner, argv, args >>

Next ==
    \/ \E cmdline \in CommandLines : main(cmdline)
    \/ do_POST
    \/ do_GET
    \/ unsupported_method
    \/ finish

Spec == Init /\ [][Next]_vars

----------------------------------------------------------------------------
(* What the claims speak of *)

Answered == pc = "handled"

\* the status line the request is answered with: the first one emitted
Status == response[1].status

Statuses == {response[i].status : i \in 1..Len(response)}

IsPost(path) == Answered /\ request.method = "POST" /\ request.path = path

\* the body arrived whole and is a JSON object
ObjectBody == request.cl = "ok" /\ request.body.kind = "object"

FiveRoutes ==
    {<< "GET", "/" >>, << "GET", "/health" >>, << "GET", "/v1/models" >>,
     << "POST", "/v1/completions" >>, << "POST", "/v1/chat/completions" >>}

OnRoute == << request.method, request.path >> \in FiveRoutes

\* the number of whitespace-separated words of a text: one for every
\* character that is no whitespace and ends the text or precedes whitespace
WordCount(s) ==
    Cardinality({i \in 1..Len(s) :
                    ~IsSpace(s[i]) /\ (i = Len(s) \/ IsSpace(s[i + 1]))})

\* a 200 of one of the two completion endpoints
Completed(route) ==
    Answered /\ Status = 200 /\ response[1].route = route

CompletionText ==
    IF response[1].route = "completions"
    THEN response[1].payload.choices[1].text
    ELSE response[1].payload.choices[1].message.content

----------------------------------------------------------------------------
(* C1 *)

----------------------------------------------------------------------------
(* C2 *)

\* C2: a POST /v1/completions whose body is a JSON object without `prompt`, or
\* with the empty string as `prompt`, is answered with 400; no 200 is emitted
\* and the generation step is not reached, whatever the other fields are.
C2_MissingPrompt ==
    ( /\ IsPost("/v1/completions")
      /\ ObjectBody
      /\ request.body.prompt \in {Absent, Present(JStr(<< >>))} )
    =>
        /\ Status = 400
        /\ 200 \notin Statuses
        /\ \A i \in 1..Len(steps) : steps[i] # "generate"

\* the empty prompt was sent with other fields set and an engine directory
\* given
C2_Witness ==
    /\ IsPost("/v1/completions")
    /\ ObjectBody
    /\ request.body.prompt = Present(JStr(<< >>))
    /\ request.body.max_tokens = Present(JInt(16))
    /\ argv.engine_dir \in ExistingPaths
    /\ Status = 400

----------------------------------------------------------------------------
(* C3 *)

\* C3: a POST /v1/chat/completions whose body is a JSON object without
\* `messages`, or with an empty list as `messages`, is answered with 400; no
\* 200 is emitted, and neither the flattening nor the generation is performed.
C3_MissingMessages ==
    ( /\ IsPost("/v1/chat/completions")
      /\ ObjectBody
      /\ request.body.messages \in {MAbsent, MList(<< >>)} )
    =>
        /\ Status = 400
        /\ 200 \notin Statuses
        /\ \A i \in 1..Len(steps) : steps[i] \notin {"flatten", "generate"}
        /\ locals.prompt_parts = << >>

\* the empty list was sent
C3_Witness ==
    /\ IsPost("/v1/chat/completions")
    /\ ObjectBody
    /\ request.body.messages = MList(<< >>)
    /\ Status = 400

----------------------------------------------------------------------------
(* C4 *)

\* C4: in every 200 of /v1/completions and /v1/chat/completions,
\* usage.prompt_tokens is the word count of the prompt (of the flattened
\* prompt for chat), usage.completion_tokens is the word count of the text
\* returned in choices[0], and usage.total_tokens is their sum.
C4_Usage ==
    \A route \in {"completions", "chat"} :
        Completed(route) =>
            LET usage == response[1].payload.usage
                prompt == IF route = "completions"
                          THEN request.body.prompt.v.s
                          ELSE join(locals.prompt_parts)
            IN /\ usage.prompt_tokens = WordCount(prompt)
               /\ usage.completion_tokens = WordCount(CompletionText)
               /\ usage.total_tokens =
                      usage.prompt_tokens + usage.completion_tokens

\* a prompt of two words around a blank was completed
C4_Witness ==
    /\ Completed("completions")
    /\ request.body.prompt = Present(JStr(<< "a", " ", "a" >>))
    /\ response[1].payload.usage.prompt_tokens = 2
    /\ response[1].payload.usage.total_tokens > 2

----------------------------------------------------------------------------
(* C5 *)

\* C5 as stated, for the requests the handler class dispatches itself (GET and
\* POST): the request is answered exactly once, with 200 or with one of 400,
\* 404 and 500, and no error status is emitted after a 200 status line was
\* written.
C5_OneResponse ==
    (Answered /\ request.method \in {"GET", "POST"}) =>
        /\ Len(response) = 1
        /\ Status \in {200, 400, 404, 500}
        /\ \A i, j \in 1..Len(response) :
              (i < j /\ response[i].status = 200) => response[j].status = 200

----------------------------------------------------------------------------
(* C6 *)

\* the label the flattening gives a role
LabelOf(role) ==
    CASE role = Present("system") -> SystemLabel
      [] role = Present("assistant") -> AssistantLabel
      [] OTHER -> UserLabel

\* C6 as stated: the flattening of a list of k messages has k+1 parts, the
\* i-th being the label of the i-th message's role followed by its content,
\* the last being "Assistant:", whatever the roles are.
C6_OnePartPerMessage ==
    (IsPost("/v1/chat/completions") /\ locals.prompt_parts # << >>) =>
        LET items == request.body.messages.items
            parts == locals.prompt_parts
        IN /\ Len(parts) = Len(items) + 1
           /\ parts[Len(parts)] = AssistantCue
           /\ \A i \in 1..Len(items) :
                 (i < Len(parts) /\ items[i].role # Present("tool")) =>
                     parts[i] = LabelOf(items[i].role)
                                    \o get(items[i].content, JStr(<< >>)).s

----------------------------------------------------------------------------
(* C7 *)

\* the request makes the handler's try raise before anything is sent: the
\* Content-Length is absent or no number, the body is no JSON object, the
\* prompt is a non-empty value that is no text, `messages` is no list or holds
\* an item that is no object
FaultBeforeSend ==
    \/ ~ObjectBody
    \/ /\ request.path = "/v1/completions"
       /\ request.body.prompt.present
       /\ request.body.prompt.v.k # "str"
       /\ Truthy(request.body.prompt.v)
    \/ /\ request.path = "/v1/chat/completions"
       /\ request.body.messages.present
       /\ \/ request.body.messages.k = "int"
          \/ \E i \in 1..Len(request.body.messages.items) :
                ~request.body.messages.items[i].obj

\* C7: a fault raised while a POST to /v1/completions or /v1/chat/completions
\* is read, decoded, parsed, has its fields taken, is flattened or has its
\* usage computed is answered with 500, whose message is the fixed prefix
\* followed by the exception's text; neither 200 nor 400 is emitted.
C7_FaultIs500 ==
    ( /\ Answered
      /\ request.method = "POST"
      /\ request.path \in {"/v1/completions", "/v1/chat/completions"}
      /\ FaultBeforeSend )
    =>
        /\ Status = 500
        /\ Statuses = {500}
        /\ Len(response) = 1
        /\ Len(response[1].message) > 1
        /\ response[1].message[1] = "Internal server error: "

\* a number was sent as prompt and the usage could not be computed
C7_Witness ==
    /\ IsPost("/v1/completions")
    /\ ObjectBody
    /\ request.body.prompt = Present(JInt(7))
    /\ Status = 500
    /\ response[1].message =
          << "Internal server error: ", "'", "int",
             "' object has no attribute '", "split", "'" >>

----------------------------------------------------------------------------
(* C8 *)

\* the model name the command line configures
ConfiguredName ==
    IF argv.model_name = None THEN "gpt-oss-20b" ELSE argv.model_name

\* C8: whenever GET /v1/models is answered, the list has one entry whose id
\* and root are the model name configured at startup (the --model_name value,
\* gpt-oss-20b without one); every 200 of the two completion endpoints
\* carries the same name as `model`.
C8_ModelName ==
    Answered =>
        /\ (request.method = "GET" /\ request.path = "/v1/models") =>
              /\ Status = 200
              /\ Len(response[1].payload.data) = 1
              /\ response[1].payload.data[1].id = ConfiguredName
              /\ response[1].payload.data[1].root = ConfiguredName
        /\ \A route \in {"completions", "chat"} :
              Completed(route) => response[1].payload.model = ConfiguredName

\* the models were listed on a server started with --model_name
C8_Witness ==
    /\ Answered
    /\ request.method = "GET"
    /\ request.path = "/v1/models"
    /\ argv.model_name = "my-model"
    /\ response[1].payload.data[1].id = "my-model"

----------------------------------------------------------------------------
(* C9 *)

NoEngine == argv.engine_dir = None \/ argv.engine_dir \notin ExistingPaths

\* C9: on a server started with no engine directory, or with one that does
\* not exist, GET /health reports "healthy" with model_loaded false, and every
\* 200 of the two completion endpoints carries the model-not-loaded text.
C9_NoEngine ==
    (Answered /\ NoEngine) =>
        /\ (request.method = "GET" /\ request.path = "/health") =>
              /\ Status = 200
              /\ response[1].payload.status = "healthy"
              /\ response[1].payload.model_loaded = FALSE
        /\ \A route \in {"completions", "chat"} :
              Completed(route) => CompletionText = ModelNotLoadedText

\* the health of a server started with a missing engine directory was asked
C9_Witness ==
    /\ Answered
    /\ argv.engine_dir = "/engines/missing"
    /\ request.method = "GET"
    /\ request.path = "/health"
    /\ response[1].payload.model_loaded = FALSE

----------------------------------------------------------------------------
(* C10 *)

\* the request with every omitted optional parameter sent with its default
WithDefaults(req) ==
    [req EXCEPT
        !.body.max_tokens = IF @.present THEN @ ELSE Present(JInt(100)),
        !.body.temperature =
            IF @.present THEN @ ELSE Present(JFloat(<< "1", ".", "0" >>)),
        !.body.top_p =
            IF @.present THEN @ ELSE Present(JFloat(<< "1", ".", "0" >>)),
        !.body.n = IF @.present \/ req.path # "/v1/completions"
                   THEN @ ELSE Present(JInt(1))]

\* a completion request with a non-empty text prompt, or a chat request with
\* a non-empty list of message objects, read from an object body
WellFormed ==
    /\ Answered
    /\ request.method = "POST"
    /\ ObjectBody
    /\ \/ /\ request.path = "/v1/completions"
          /\ request.body.prompt.present
          /\ request.body.prompt.v.k = "str"
          /\ request.body.prompt.v.s # << >>
       \/ /\ request.path = "/v1/chat/completions"
          /\ request.body.messages.present
          /\ request.body.messages.k = "list"
          /\ request.body.messages.items # << >>
          /\ \A i \in 1..Len(request.body.messages.items) :
                request.body.messages.items[i].obj

\* C10: such a request is answered with 200 whichever optional parameters it
\* omits; an omitted max_tokens, temperature, top_p or n is taken as 100, 1.0,
\* 1.0 or 1; and what is emitted is what the same request with those values
\* written out gets.
C10_Defaults ==
    WellFormed =>
        /\ Status = 200
        /\ ~request.body.max_tokens.present => locals.max_tokens = JInt(100)
        /\ ~request.body.temperature.present =>
              locals.temperature = JFloat(<< "1", ".", "0" >>)
        /\ ~request.body.top_p.present =>
              locals.top_p = JFloat(<< "1", ".", "0" >>)
        /\ (request.path = "/v1/completions" /\ ~request.body.n.present) =>
              locals.n = JInt(1)
        /\ LET full == PostResponse(WithDefaults(request), model_name, model_runner)
           IN /\ response = full.events
              /\ locals = full.locals

\* a completion request without any optional parameter was completed
C10_Witness ==
    /\ WellFormed
    /\ request.path = "/v1/completions"
    /\ ~request.body.max_tokens.present
    /\ ~request.body.temperature.present
    /\ ~request.body.top_p.present
    /\ ~request.body.n.present
    /\ Status = 200
    /\ locals.max_tokens = JInt(100)

----------------------------------------------------------------------------
(* C11 *)

\* what a request gets from a handler class that holds the given model name
\* and backend
Respond(req, name, runner) ==
    CASE req.method = "GET" -> GetResponse(req, name, runner)
      [] req.method = "POST" -> PostResponse(req, name, runner)
      [] OTHER -> UnsupportedResponse(req)

\* C11: once the server is started, no step (a request of any route and any
\* outcome, or the end of one) changes the handler's model name or backend
\* reference: they keep the values startup gave them; and what a request is
\* answered with is what the request alone gets from the startup
\* configuration, whatever was handled before it.
C11_Frame ==
    [][ pc # "start" =>
          /\ model_name' = model_name
          /\ model_runner' = model_runner
          /\ model_name' = ConfiguredName
          /\ model_runner' = None
          /\ pc' = "handled" =>
                LET alone == Respond(request', ConfiguredName, None)
                IN /\ response' = alone.events
                   /\ steps' = alone.steps
                   /\ locals' = alone.locals ]_vars

\* a request that ended in 500 was handled on a server started with a model
\* name and an engine directory, and the configuration is as startup left it
C11_Witness ==
    /\ Answered
    /\ argv.engine_dir \in ExistingPaths
    /\ argv.model_name = "my-model"
    /\ Status = 500
    /\ model_name = "my-model"
    /\ model_runner = None

====
